---- MODULE Spec2Model ----
(***************************************************************************)
(* PdfSearcher (main2.py): a directory walk that searches every PDF for a  *)
(* term (search_and_open_pdfs, search_pdf) followed by an interactive menu *)
(* that opens matched files in Foxit Reader (open_pdfs,                    *)
(* open_pdf_with_foxit).                                                   *)
(*                                                                         *)
(* Strings that the code converts or tests (file names, user input, page   *)
(* text, the search term) are sequences of one-character strings, so that  *)
(* str.lower, str.endswith, int() and re.search are computed.              *)
(***************************************************************************)
EXTENDS Integers, Sequences, FiniteSets

VARIABLES
    tree,               \* file names in the order os.walk yields them
    isdir,              \* os.path.isdir(folder_path)
    foxit1,             \* os.path.exists of the default Foxit path
    foxit2,             \* os.path.exists of the alternate Foxit path
    pc,                 \* position of the program
    fi,                 \* index in tree of the next file of the walk
    total_files,
    files_with_matches,
    results,            \* insertion-ordered dict: sequence of [path, pages]
    npages,             \* len(pdf.pages) of the file being searched
    i,                  \* number of pages of that file already processed
    matches,            \* search_pdf's local list
    extracted,          \* what extract_text did on pages 1..i of that file
    scanned,            \* completed search_pdf calls: [path, ret]
    sel,                \* idx of the file chosen at the file prompt (0-based)
    prompted,           \* input() has been called
    choice,             \* last line read at the file prompt
    page_choice,        \* last line read at the page prompt
    launched,           \* open_pdf_with_foxit calls made for the last line read
    msg,                \* last line printed
    listed              \* number of times the list of files was printed

vars == <<tree, isdir, foxit1, foxit2, pc, fi, total_files, files_with_matches,
          results, npages, i, matches, extracted, scanned, sel, prompted, choice,
          page_choice, launched, msg, listed>>

scanVars == <<fi, total_files, files_with_matches, results, npages, i, matches,
              extracted, scanned>>

menuVars == <<sel, prompted, choice, page_choice, launched, listed>>

envVars == <<tree, isdir, foxit1, foxit2>>

-----------------------------------------------------------------------------
(* Bounds *)

MaxFiles == 3

MaxPages == 3

FileNames ==
    { <<"a", ".", "p", "d", "f">>,
      <<"b", ".", "P", "D", "F">>,
      <<"n", ".", "t", "x", "t">> }

-----------------------------------------------------------------------------
(* Strings *)

UpperAlpha == <<"A","B","C","D","E","F","G","H","I","J","K","L","M",
                "N","O","P","Q","R","S","T","U","V","W","X","Y","Z">>

LowerAlpha == <<"a","b","c","d","e","f","g","h","i","j","k","l","m",
                "n","o","p","q","r","s","t","u","v","w","x","y","z">>

UpperToLower ==
    [c \in { UpperAlpha[k] : k \in 1..26 } |->
        LowerAlpha[CHOOSE k \in 1..26 : UpperAlpha[k] = c]]

LowerChar(c) == IF c \in DOMAIN UpperToLower THEN UpperToLower[c] ELSE c

\* str.lower()
Lower(s) == [k \in DOMAIN s |-> LowerChar(s[k])]

\* str.endswith(suffix)
EndsWith(s, suffix) ==
    /\ Len(s) >= Len(suffix)
    /\ SubSeq(s, Len(s) - Len(suffix) + 1, Len(s)) = suffix

\* re.search(term, text, re.IGNORECASE) for a term without metacharacters
ReSearch(term, text) ==
    \E k \in 0..(Len(text) - Len(term)) :
        Lower(SubSeq(text, k + 1, k + Len(term))) = Lower(term)

Digits == <<"0","1","2","3","4","5","6","7","8","9">>

IsDigit(c) == \E d \in 1..10 : Digits[d] = c

DigitVal(c) == (CHOOSE d \in 1..10 : Digits[d] = c) - 1

RECURSIVE LStrip(_)
LStrip(s) == IF s # <<>> /\ Head(s) = " " THEN LStrip(Tail(s)) ELSE s

RECURSIVE RStrip(_)
RStrip(s) ==
    IF s # <<>> /\ s[Len(s)] = " " THEN RStrip(SubSeq(s, 1, Len(s) - 1)) ELSE s

RECURSIVE DecVal(_)
DecVal(s) ==
    IF s = <<>> THEN 0
    ELSE 10 * DecVal(SubSeq(s, 1, Len(s) - 1)) + DigitVal(s[Len(s)])

\* int(s): surrounding blanks are dropped, one sign is allowed, then digits;
\* ok = FALSE stands for ValueError
IntParse(s) ==
    LET t == RStrip(LStrip(s))
        signed == t # <<>> /\ Head(t) \in {"-", "+"}
        body == IF signed THEN Tail(t) ELSE t
    IN  IF body # <<>> /\ \A k \in DOMAIN body : IsDigit(body[k])
        THEN [ok |-> TRUE,
              val |-> IF signed /\ Head(t) = "-" THEN 0 - DecVal(body)
                      ELSE DecVal(body)]
        ELSE [ok |-> FALSE, val |-> 0]

SeqMember(x, s) == \E k \in DOMAIN s : s[k] = x

-----------------------------------------------------------------------------
(* search_and_open_pdfs: the walk *)

search_term == <<"T", "c", "p">>

DotPdf == <<".", "p", "d", "f">>

IsPdfNameCaseSensitive(filename) == EndsWith(filename, DotPdf)

\* filename.lower().endswith('.pdf')
IsPdfName(filename) == EndsWith(Lower(filename), DotPdf)

AlwaysRecord(m) == TRUE

\* if matches:
HasMatches(m) == m # <<>>

\* results[pdf_path] = matches
DictSet(d, path, pages) ==
    IF \E k \in DOMAIN d : d[k].path = path
    THEN [k \in DOMAIN d |->
            IF d[k].path = path THEN [path |-> path, pages |-> pages] ELSE d[k]]
    ELSE Append(d, [path |-> path, pages |-> pages])

Trees ==
    { t \in UNION { [1..n -> FileNames] : n \in 0..MaxFiles } :
        \A a, b \in DOMAIN t : a # b => t[a] # t[b] }

-----------------------------------------------------------------------------
(* search_pdf *)

ErrPage == [kind |-> "err", text |-> <<>>]

NonePage == [kind |-> "none", text |-> <<>>]

TextPage(t) == [kind |-> "text", text |-> t]

Texts == { <<>>, <<"a", "t", "C", "P">>, <<"u", "d", "p">> }

\* what page.extract_text() can do: raise, return None, return a string
PageOutcomes == {ErrPage, NonePage} \cup { TextPage(t) : t \in Texts }

PageNumberZeroBased(idx) == idx

\* matches.append(i + 1)
PageNumber(idx) == idx + 1

\* if text and re.search(search_term, text, re.IGNORECASE)
PageMatches(o) ==
    /\ o.kind = "text"
    /\ o.text # <<>>
    /\ ReSearch(search_term, o.text)

AbortFileOnError(idx, n) == n

\* except Exception: print(...); continue
ContinueAfterError(idx, n) == idx + 1

-----------------------------------------------------------------------------
(* open_pdf_with_foxit *)

FoxitPathUnchecked == IF foxit1 THEN 1 ELSE 2

\* which install path is used: 1 default, 2 alternate, 0 none (return False)
FoxitPath == IF foxit1 THEN 1 ELSE IF foxit2 THEN 2 ELSE 0

\* popen_ok = FALSE stands for subprocess.Popen raising
OpenPdfWithFoxit(pdf_path, page_number, popen_ok) ==
    LET exe == FoxitPath
    IN  IF exe = 0
        THEN [path |-> pdf_path, page |-> page_number, exe |-> 0,
              started |-> FALSE, ret |-> FALSE, msg |-> "foxit_not_found"]
        ELSE IF popen_ok
        THEN [path |-> pdf_path, page |-> page_number, exe |-> exe,
              started |-> TRUE, ret |-> TRUE, msg |-> "opening"]
        ELSE [path |-> pdf_path, page |-> page_number, exe |-> exe,
              started |-> FALSE, ret |-> FALSE, msg |-> "error_opening"]

-----------------------------------------------------------------------------
(* open_pdfs: the decisions *)

NeverEmpty(r) == FALSE

\* if not results:
IsEmptyResult(r) == r = <<>>

IsQuitCaseSensitive(c) == c = <<"q">>

\* choice.lower() == 'q'
IsQuit(c) == Lower(c) = <<"q">>

\* choice.lower() == 'all', page_choice.lower() == 'all'
IsAll(c) == Lower(c) = <<"a", "l", "l">>

LastPage(pages) == pages[Len(pages)]

\* pages[0]
FirstPage(pages) == pages[1]

PageInRange(page, pages) == pages # <<>> /\ pages[1] <= page /\ page <= pages[Len(pages)]

\* if page in pages:
PageValid(page, pages) == SeqMember(page, pages)

\* for pdf_path, pages in results.items(): if pages: open at pages[0]
AllFirstTargets(r) ==
    LET keep(e) == e.pages # <<>>
        kept == SelectSeq(r, keep)
    IN  [k \in DOMAIN kept |-> [path |-> kept[k].path, page |-> FirstPage(kept[k].pages)]]

RECURSIVE StopAtFirstFailure(_, _, _)
StopAtFirstFailure(pdf_path, pages, oks) ==
    IF pages = <<>> THEN <<>>
    ELSE LET r == OpenPdfWithFoxit(pdf_path, pages[1], oks[1])
         IN  IF r.ret
             THEN <<r>> \o StopAtFirstFailure(pdf_path, Tail(pages),
                                [k \in 1..(Len(pages) - 1) |-> oks[k + 1]])
             ELSE <<r>>

\* for page in pages: open_pdf_with_foxit(pdf_path, page)
OpenAllPages(pdf_path, pages, oks) ==
    [k \in DOMAIN pages |-> OpenPdfWithFoxit(pdf_path, pages[k], oks[k])]

\* one outcome of subprocess.Popen per call; no call reaches Popen when no
\* install path exists
PopenOutcomes(D) ==
    IF FoxitPath = 0 THEN {[k \in D |-> TRUE]} ELSE [D -> BOOLEAN]

LastMsg(calls, old) == IF calls = <<>> THEN old ELSE calls[Len(calls)].msg

NumStr(n) == <<Digits[n + 1]>>

\* the lines input() can return
Inputs ==
    { <<"q">>, <<"Q">>, <<"a", "l", "l">>, <<"A", "L", "L">>,
      <<"x">>, <<" ", "2">> }
    \cup { NumStr(n) : n \in 0..(MaxPages + 1) }

-----------------------------------------------------------------------------
(* The program *)

Init ==
    /\ tree \in Trees
    /\ isdir \in BOOLEAN
    /\ foxit1 \in BOOLEAN
    /\ foxit2 \in BOOLEAN
    /\ pc = "start"
    /\ fi = 1
    /\ total_files = 0
    /\ files_with_matches = 0
    /\ results = <<>>
    /\ npages = 0
    /\ i = 0
    /\ matches = <<>>
    /\ extracted = <<>>
    /\ scanned = <<>>
    /\ sel = 0
    /\ prompted = FALSE
    /\ choice = <<>>
    /\ page_choice = <<>>
    /\ launched = <<>>
    /\ msg = "none"
    /\ listed = 0

\* search_and_open_pdfs, lines 18-32
CheckFolder ==
    /\ pc = "start"
    /\ IF ~isdir
       THEN /\ msg' = "folder_not_found"
            /\ pc' = "done"
       ELSE /\ msg' = "searching"
            /\ pc' = "walk"
    /\ UNCHANGED <<envVars, scanVars, menuVars>>

\* one iteration of the walk up to the call of search_pdf and the opening of
\* the file (lines 36-40, 64-68); a file that cannot be opened has no pages
\* to loop over and search_pdf returns its empty list
WalkFile ==
    /\ pc = "walk"
    /\ fi <= Len(tree)
    /\ IF ~IsPdfName(tree[fi])
       THEN /\ fi' = fi + 1
            /\ UNCHANGED <<pc, total_files, npages, i, matches, extracted, msg>>
       ELSE /\ total_files' = total_files + 1
            /\ matches' = <<>>
            /\ i' = 0
            /\ extracted' = <<>>
            /\ pc' = "pages"
            /\ \E opened \in BOOLEAN :
                 IF opened
                 THEN /\ npages' \in 0..MaxPages
                      /\ msg' = msg
                 ELSE /\ npages' = 0
                      /\ msg' = "error_reading"
            /\ fi' = fi
    /\ UNCHANGED <<envVars, files_with_matches, results, scanned, menuVars>>

\* one iteration of the page loop (lines 69-76)
ExtractPage ==
    /\ pc = "pages"
    /\ i < npages
    /\ \E o \in PageOutcomes :
         /\ extracted' = Append(extracted, o)
         /\ IF o.kind = "err"
            THEN /\ matches' = matches
                 /\ i' = ContinueAfterError(i, npages)
                 /\ msg' = "error_page"
            ELSE /\ matches' = IF PageMatches(o)
                               THEN Append(matches, PageNumber(i))
                               ELSE matches
                 /\ i' = i + 1
                 /\ msg' = msg
    /\ UNCHANGED <<envVars, pc, fi, total_files, files_with_matches, results,
                   npages, scanned, menuVars>>

\* search_pdf returns and the caller records the file (lines 80, 40-46)
SearchPdfReturn ==
    /\ pc = "pages"
    /\ i >= npages
    /\ scanned' = Append(scanned, [path |-> tree[fi], ret |-> matches])
    /\ IF HasMatches(matches)
       THEN /\ files_with_matches' = files_with_matches + 1
            /\ results' = DictSet(results, tree[fi], matches)
            /\ msg' = "found_matches"
       ELSE UNCHANGED <<files_with_matches, results, msg>>
    /\ fi' = fi + 1
    /\ pc' = "walk"
    \* search_pdf's locals end with the call
    /\ npages' = 0
    /\ i' = 0
    /\ matches' = <<>>
    /\ extracted' = <<>>
    /\ UNCHANGED <<envVars, total_files, menuVars>>

\* the walk is over: summary line, then open_pdfs(results) up to its first
\* input() (lines 48-51, 120-134)
WalkDone ==
    /\ pc = "walk"
    /\ fi > Len(tree)
    /\ IF IsEmptyResult(results)
       THEN /\ msg' = "no_matches"
            /\ pc' = "done"
            /\ listed' = listed
       ELSE /\ msg' = "listing"
            /\ pc' = "await_file"
            /\ listed' = listed + 1
    /\ UNCHANGED <<envVars, scanVars, sel, prompted, choice, page_choice, launched>>

\* one line read at the file prompt and what the loop body does with it, up
\* to the next input() (lines 135-155, 172-175)
ReadChoice ==
    /\ pc = "await_file"
    /\ \E c \in Inputs :
         /\ choice' = c
         /\ prompted' = TRUE
         /\ IF IsQuit(c)
            THEN /\ pc' = "done"
                 /\ launched' = <<>>
                 /\ sel' = 0
                 /\ msg' = msg
            ELSE IF IsAll(c)
            THEN LET targets == AllFirstTargets(results)
                 IN  \E oks \in PopenOutcomes(DOMAIN targets) :
                       /\ launched' = [k \in DOMAIN targets |->
                             OpenPdfWithFoxit(targets[k].path, targets[k].page, oks[k])]
                       /\ msg' = LastMsg(launched', msg)
                       /\ pc' = "done"
                       /\ sel' = 0
            ELSE LET p == IntParse(c)
                     idx == p.val - 1
                 IN  IF ~p.ok
                     THEN /\ msg' = "invalid_input"
                          /\ launched' = <<>>
                          /\ sel' = 0
                          /\ pc' = pc
                     ELSE IF 0 <= idx /\ idx < Len(results)
                     THEN LET pdf_path == results[idx + 1].path
                              pages == results[idx + 1].pages
                          IN  IF Len(pages) = 1
                              THEN \E oks \in PopenOutcomes({1}) :
                                     /\ launched' = <<OpenPdfWithFoxit(pdf_path, pages[1], oks[1])>>
                                     /\ msg' = LastMsg(launched', msg)
                                     /\ sel' = idx
                                     /\ pc' = pc
                              ELSE /\ pc' = "await_page"
                                   /\ sel' = idx
                                   /\ launched' = <<>>
                                   /\ msg' = "multiple_matches"
                     ELSE /\ msg' = "invalid_choice"
                          /\ launched' = <<>>
                          /\ sel' = 0
                          /\ pc' = pc
    \* page_choice is assigned only at the page prompt of this iteration
    /\ page_choice' = <<>>
    /\ UNCHANGED <<envVars, scanVars, listed>>

\* one line read at the page prompt and the rest of the loop body (lines
\* 158-171); control then returns to the top of the while loop
ReadPageChoice ==
    /\ pc = "await_page"
    /\ \E c \in Inputs :
         LET pdf_path == results[sel + 1].path
             pages == results[sel + 1].pages
         IN  /\ page_choice' = c
             /\ prompted' = TRUE
             /\ pc' = "await_file"
             /\ IF IsAll(c)
                THEN \E oks \in PopenOutcomes(DOMAIN pages) :
                       /\ launched' = OpenAllPages(pdf_path, pages, oks)
                       /\ msg' = LastMsg(launched', msg)
                ELSE LET p == IntParse(c)
                     IN  IF ~p.ok
                         THEN /\ msg' = "invalid_page_input"
                              /\ launched' = <<>>
                         ELSE IF PageValid(p.val, pages)
                         THEN \E oks \in PopenOutcomes({1}) :
                                /\ launched' = <<OpenPdfWithFoxit(pdf_path, p.val, oks[1])>>
                                /\ msg' = LastMsg(launched', msg)
                         ELSE /\ msg' = "invalid_page"
                              /\ launched' = <<>>
    /\ UNCHANGED <<envVars, scanVars, sel, choice, listed>>

Next ==
    \/ CheckFolder
    \/ WalkFile
    \/ ExtractPage
    \/ SearchPdfReturn
    \/ WalkDone
    \/ ReadChoice
    \/ ReadPageChoice

Spec == Init /\ [][Next]_vars

-----------------------------------------------------------------------------
(* Reference values the properties are stated against, by enumeration *)

\* the names of FileNames that end in .pdf whatever the case
PdfNames == { <<"a", ".", "p", "d", "f">>, <<"b", ".", "P", "D", "F">> }

\* the texts of Texts that contain the search term whatever the case
MatchingTexts == { <<"a", "t", "C", "P">> }

AllLine == <<"a", "l", "l">>

QuitLine == <<"q">>

StrictlyAscending(s) == \A a, b \in DOMAIN s : a < b => s[a] < s[b]

IsKey(path) == \E k \in DOMAIN results : results[k].path = path

\* the walk is over (line 48 reached)
ScanFinished ==
    /\ isdir
    /\ \/ pc = "walk" /\ fi > Len(tree)
       \/ pc \in {"await_file", "await_page", "done"}

\* open_pdfs has been entered
InOpener == isdir /\ pc \in {"await_file", "await_page", "done"}

AtPrompt == pc \in {"await_file", "await_page"}

-----------------------------------------------------------------------------
(* C1: at every point of the scan and after it, every key of results maps *)
(* to a non-empty page list, and a file search_pdf has been run on is a    *)
(* key exactly when search_pdf returned a non-empty list (which is then    *)
(* the value stored).                                                      *)
C1_KeysIffMatches ==
    /\ \A k \in DOMAIN results : results[k].pages # <<>>
    /\ \A n \in DOMAIN scanned : IsKey(scanned[n].path) <=> scanned[n].ret # <<>>
    /\ \A k \in DOMAIN results :
         \E n \in DOMAIN scanned :
            /\ scanned[n].path = results[k].path
            /\ scanned[n].ret = results[k].pages

C1_Witness ==
    /\ pc = "await_file"
    /\ \E m, n \in DOMAIN scanned :
         /\ scanned[m].ret = <<>> /\ ~IsKey(scanned[m].path)
         /\ scanned[n].ret # <<>> /\ IsKey(scanned[n].path)

(* C2: at every step of the page loop, up to the state search_pdf returns   *)
(* from, matches is strictly ascending and within 1..page count; every list *)
(* search_pdf has returned, and every list stored, is strictly ascending    *)
(* and starts at 1 or later.                                                *)
C2_AscendingInRange ==
    /\ pc = "pages" =>
         /\ StrictlyAscending(matches)
         /\ \A k \in DOMAIN matches : 1 <= matches[k] /\ matches[k] <= npages
    /\ \A n \in DOMAIN scanned :
         /\ StrictlyAscending(scanned[n].ret)
         /\ \A k \in DOMAIN scanned[n].ret : scanned[n].ret[k] >= 1
    /\ \A r \in DOMAIN results : StrictlyAscending(results[r].pages)

C2_Witness ==
    /\ pc = "pages"
    /\ i = npages
    /\ npages = MaxPages
    /\ matches = <<1, npages>>
    /\ \E k \in DOMAIN extracted : extracted[k] = ErrPage

(* C3: in the page loop, extract_text has been called on every page up to   *)
(* the loop position (so on all pages when search_pdf returns); a page on   *)
(* which it raised or returned None or "" is not in matches, and a page     *)
(* whose text contains the term is, whatever the earlier pages did.         *)
C3_BadPageSkippedLaterPagesSearched ==
    pc = "pages" =>
        /\ i <= npages
        /\ Len(extracted) = i
        /\ \A k \in DOMAIN extracted :
             /\ (extracted[k].kind \in {"err", "none"} \/ extracted[k].text = <<>>)
                   => ~SeqMember(k, matches)
             /\ (extracted[k].kind = "text" /\ extracted[k].text \in MatchingTexts)
                   => SeqMember(k, matches)

C3_Witness ==
    /\ pc = "pages"
    /\ i = npages
    /\ npages = 3
    /\ extracted[1] = ErrPage
    /\ extracted[2] = TextPage(<<>>)
    /\ extracted[3].text \in MatchingTexts
    /\ matches = <<3>>

(* C4: once the walk is over, total_files is the number of files of the     *)
(* tree whose name ends in .pdf in any case, search_pdf has been run on     *)
(* each of them, and files_with_matches is the number of keys of results;   *)
(* a tree of a.pdf (pages 1 and 3 match), b.PDF (no match) and n.txt gives  *)
(* {a.pdf: [1,3]}, 2 and 1.                                                 *)
C4_Counters ==
    ScanFinished =>
        /\ total_files = Cardinality({ k \in DOMAIN tree : tree[k] \in PdfNames })
        /\ Len(scanned) = total_files
        /\ \A k \in DOMAIN tree :
             tree[k] \in PdfNames <=> \E n \in DOMAIN scanned : scanned[n].path = tree[k]
        /\ files_with_matches = Len(results)
        /\ ( /\ Len(tree) = 3
             /\ \E m, n \in DOMAIN scanned :
                  /\ scanned[m] = [path |-> <<"a", ".", "p", "d", "f">>, ret |-> <<1, 3>>]
                  /\ scanned[n] = [path |-> <<"b", ".", "P", "D", "F">>, ret |-> <<>>] )
           => /\ results = << [path |-> <<"a", ".", "p", "d", "f">>, pages |-> <<1, 3>>] >>
              /\ total_files = 2
              /\ files_with_matches = 1

C4_Witness ==
    /\ ScanFinished
    /\ pc = "await_file"
    /\ Len(tree) = 3
    /\ \E k \in DOMAIN tree : tree[k] \notin PdfNames
    /\ \E m, n \in DOMAIN scanned :
         /\ scanned[m] = [path |-> <<"a", ".", "p", "d", "f">>, ret |-> <<1, 3>>]
         /\ scanned[n] = [path |-> <<"b", ".", "P", "D", "F">>, ret |-> <<>>]
    /\ total_files = 2
    /\ files_with_matches = 1

(* C5: when the loop has ended on the line `all` read at the file prompt,   *)
(* open_pdf_with_foxit has been called exactly once per file of results, in *)
(* the order of results, each time with that file's first and lowest        *)
(* matched page; a viewer process was started by exactly those calls that   *)
(* found an install path and whose Popen did not raise; and no further      *)
(* line can be read.                                                        *)
C5_AllOpensFirstPageOfEachFile ==
    (pc = "done" /\ prompted /\ choice = AllLine) =>
        /\ Len(launched) = Len(results)
        /\ \A k \in DOMAIN launched :
             /\ launched[k].path = results[k].path
             /\ launched[k].page = results[k].pages[1]
             /\ \A j \in DOMAIN results[k].pages : launched[k].page <= results[k].pages[j]
             /\ launched[k].started => (foxit1 \/ foxit2)
        /\ ~ENABLED ReadChoice
        /\ ~ENABLED ReadPageChoice

C5_Witness ==
    /\ pc = "done"
    /\ choice = AllLine
    /\ Len(results) = 2
    /\ results[1].pages = <<1, 3>>
    /\ results[2].pages = <<2>>
    /\ Len(launched) = 2
    /\ launched[1].started /\ launched[1].page = 1
    /\ launched[2].started /\ launched[2].page = 2

(* C6 as claimed: a line read at the page prompt that is a number not among *)
(* the file's matched pages opens nothing, reports an invalid page number   *)
(* and leaves the program at the page prompt of the same file; a number     *)
(* that is among them makes exactly one open call, at that page.            *)
C6_Original ==
    [][ pc = "await_page" =>
          LET p == IntParse(page_choice')
              pages == results[sel + 1].pages
          IN  /\ (p.ok /\ ~SeqMember(p.val, pages)) =>
                    /\ launched' = <<>>
                    /\ msg' = "invalid_page"
                    /\ listed' = listed
                    /\ pc' = "await_page"
                    /\ sel' = sel
              /\ (p.ok /\ SeqMember(p.val, pages)) =>
                    /\ Len(launched') = 1
                    /\ launched'[1].path = results[sel + 1].path
                    /\ launched'[1].page = p.val
      ]_vars

(* C6 as amended: the page prompt is reached for a file with several        *)
(* matched pages; a number not among them opens nothing, reports an invalid *)
(* page number, does not list the files again and does not end the loop,    *)
(* but the next line is read at the file prompt; a number among them makes  *)
(* exactly one open call, at that page of that file.                        *)
C6_InvalidPageBackToFilePrompt ==
    [][ pc = "await_page" =>
          LET p == IntParse(page_choice')
              pages == results[sel + 1].pages
          IN  /\ Len(pages) > 1
              /\ (p.ok /\ ~SeqMember(p.val, pages)) =>
                    /\ launched' = <<>>
                    /\ msg' = "invalid_page"
                    /\ listed' = listed
                    /\ pc' = "await_file"
              /\ (p.ok /\ SeqMember(p.val, pages)) =>
                    /\ Len(launched') = 1
                    /\ launched'[1].path = results[sel + 1].path
                    /\ launched'[1].page = p.val
                    /\ pc' = "await_file"
      ]_vars

C6_Witness ==
    /\ pc = "await_file"
    /\ results[sel + 1].pages = <<1, 3>>
    /\ page_choice = <<"2">>
    /\ msg = "invalid_page"
    /\ launched = <<>>
    /\ listed = 1

(* C7: when open_pdfs is entered with empty results it prints "No matches   *)
(* found." and the program is over: no line is ever read, no open call is   *)
(* made and the files are not listed.                                       *)
C7_EmptyResultEndsAtOnce ==
    (InOpener /\ results = <<>>) =>
        /\ pc = "done"
        /\ msg = "no_matches"
        /\ ~prompted
        /\ launched = <<>>
        /\ listed = 0
        /\ ~ENABLED ReadChoice

C7_Witness ==
    /\ InOpener
    /\ tree = <<>>
    /\ results = <<>>
    /\ pc = "done"
    /\ msg = "no_matches"

(* C8: with neither install path present, every open call of a step starts  *)
(* no process, prints "Foxit Reader not found" and returns False; and the   *)
(* loop goes where it goes after a launch that worked: it ends after the    *)
(* file prompt's `all`, and otherwise awaits a file choice.                 *)
C8_ViewerNotFoundLoopContinues ==
    [][ (AtPrompt /\ launched' # <<>>) =>
          /\ pc' = IF pc = "await_file" /\ Lower(choice') = AllLine
                   THEN "done" ELSE "await_file"
          /\ (~foxit1 /\ ~foxit2) =>
                /\ \A k \in DOMAIN launched' :
                     /\ ~launched'[k].started
                     /\ ~launched'[k].ret
                     /\ launched'[k].exe = 0
                     /\ launched'[k].msg = "foxit_not_found"
                /\ msg' = "foxit_not_found"
      ]_vars

C8_Witness ==
    /\ ~foxit1
    /\ ~foxit2
    /\ pc = "await_file"
    /\ page_choice # <<>>
    /\ Len(launched) = 1
    /\ ~launched[1].started
    /\ msg = "foxit_not_found"

C10_AllPagesOfTheFile ==
    [][ (pc = "await_page" /\ Lower(page_choice') = AllLine) =>
          LET pages == results[sel + 1].pages
          IN  /\ Len(launched') = Len(pages)
              /\ \A k \in DOMAIN pages :
                   /\ launched'[k].path = results[sel + 1].path
                   /\ launched'[k].page = pages[k]
              /\ StrictlyAscending([k \in DOMAIN launched' |-> launched'[k].page])
              /\ pc' = "await_file"
      ]_vars

C10_Witness ==
    /\ pc = "await_file"
    /\ page_choice = AllLine
    /\ results[sel + 1].pages = <<1, 2, 3>>
    /\ Len(launched) = 3
    /\ ~launched[1].started
    /\ launched[2].started
    /\ launched[3].page = 3

====
